---- MODULE Spec2Model ----
(***************************************************************************)
(* Model of Scripts/sds_codegen/sds_parse_swift_bridging.py: the script    *)
(* that walks the Pods directories and the three first-party directories,  *)
(* asks sourcekitten for the structure of every Swift file, collects the   *)
(* top-level protocol and class names of each directory in a Namespace and *)
(* writes one <dir>/<dir>-Swift.h stub header per directory.               *)
(*                                                                         *)
(* Representation.                                                         *)
(*   - A Python string that is a name is a sequence of one-character       *)
(*     strings, so that len() and startswith() are computed.               *)
(*   - A value that may be None (dict.get) is a sequence of length 0 or 1. *)
(*   - A JSON object is a function whose domain is the set of its keys.    *)
(*   - A multi-line text is the sequence of its lines (split at newlines), *)
(*     so the empty string is <<Blank>>.                                   *)
(*   - A file or directory name is [stem, ext]; endswith(ext) reads ext.   *)
(*   - The source tree and the answers of sourcekitten are the input: the  *)
(*     variable tree, chosen in Init and never changed.                    *)
(*   - The destination tree is dest: directory name -> text of             *)
(*     <dst>/<name>/<name>-Swift.h, NoFile when the file does not exist.   *)
(* The filesystem calls and json.loads are assumed to succeed.             *)
(***************************************************************************)
EXTENDS Integers, Sequences, FiniteSets, TLC

VARIABLES
    tree,         \* input: the Pods listing, the first-party directories, the tool's answers
    dest,         \* the destination tree (swift_bridging_path)
    pc,           \* position of the process
    mainPos,      \* __main__: index of the current process_dir call / Pods entry
    namespace,    \* process_dir: the Namespace object
    fileIdx,      \* process_dir: index into file_paths
    nodeIdx,      \* parse_swift_ast: index into json_maps
    invocations,  \* number of sourcekitten invocations of this run
    rerun,        \* TRUE in the second of two successive runs
    prevDest,     \* history: the destination tree as it was when this run started
    synthLog      \* history: the generate_swift_bridging_header calls of this run

vars == <<tree, dest, pc, mainPos, namespace, fileIdx, nodeIdx, invocations,
          rerun, prevDest, synthLog>>

(***************************************************************************)
(* Bounds of the explored inputs: the files of the directory under study,  *)
(* and the nodes of a sourcekitten document.                               *)
(***************************************************************************)
MaxFiles == 2
MaxNodes == 2

(***************************************************************************)
(* Strings, optional values, JSON objects.                                 *)
(***************************************************************************)
None == <<>>
Some(v) == <<v>>

Get(json_map, key) == IF key \in DOMAIN json_map THEN Some(json_map[key]) ELSE None

NeverStartsWithUnderscore(s) == FALSE

\* s.startswith(underscore)
StartsWithUnderscore(s) == Len(s) >= 1 /\ s[1] = "_"

KindProtocol == "source.lang.swift.decl.protocol"
KindClass    == "source.lang.swift.decl.class"
KindStruct   == "source.lang.swift.decl.struct"

(***************************************************************************)
(* Namespace.                                                              *)
(***************************************************************************)
\* the value of the variable namespace while no process_dir call has made one
NoNamespace == [swift_protocol_names |-> <<>>, swift_class_names |-> <<>>]

\* a Namespace that outlives the process_dir call that made it
SharedNamespace == namespace

\* Namespace(): lines 30-33
Namespace == [swift_protocol_names |-> <<>>, swift_class_names |-> <<>>]

(***************************************************************************)
(* parse_swift_ast: the name of one protocol or class node.                *)
(*   name = json_map.get(key.runtime_name)                                 *)
(*   if name is None or len(name) < 1 or name.startswith(underscore):      *)
(*       name = json_map.get(key.name)                                     *)
(***************************************************************************)
\* name is None or len(name) < 1
IsNoneOrEmpty(name) == IF name = None THEN TRUE ELSE Len(name[1]) < 1

ResolveNamePreferDeclared(json_map) ==
    LET name == Get(json_map, "key.name")
    IN  IF IsNoneOrEmpty(name) \/ StartsWithUnderscore(name[1])
        THEN Get(json_map, "key.runtime_name")
        ELSE name

ResolveName(json_map) ==
    LET name == Get(json_map, "key.runtime_name")
    IN  IF IsNoneOrEmpty(name) \/ StartsWithUnderscore(name[1])
        THEN Get(json_map, "key.name")
        ELSE name

MissingNameNoneOnly(name) == name = None

\* if name is None or len(name) < 1: fail(...)   (lines 58 and 75)
MissingName(name) == IsNoneOrEmpty(name)

(***************************************************************************)
(* Texts as sequences of lines.                                            *)
(***************************************************************************)
Blank == [t |-> "", name |-> <<>>]
TextLine(s) == [t |-> s, name |-> <<>>]
ProtocolLine(name) == [t |-> "@protocol %s", name |-> name]
InterfaceLine(name) == [t |-> "@interface %s : NSObject", name |-> name]
EndLine == TextLine("@end")

EmptyStr == <<Blank>>

\* the protocol stub: an empty line, @protocol <name>, @end, an empty line
ProtocolStub(name) == <<Blank, ProtocolLine(name), EndLine, Blank>>

\* the class stub: an empty line, @interface <name> : NSObject, @end, an empty line
ClassStub(name) == <<Blank, InterfaceLine(name), EndLine, Blank>>

\* join(strs) with a newline separator: the lines of the parts, one part after the other
RECURSIVE Join(_)
Join(strs) ==
    IF Len(strs) = 0 THEN EmptyStr
    ELSE IF Len(strs) = 1 THEN strs[1]
    ELSE strs[1] \o Join(Tail(strs))

RECURSIVE LStrip(_)
LStrip(lines) ==
    IF lines = <<>> THEN <<>>
    ELSE IF Head(lines) = Blank THEN LStrip(Tail(lines))
    ELSE lines

RECURSIVE RStrip(_)
RStrip(lines) ==
    IF lines = <<>> THEN <<>>
    ELSE IF lines[Len(lines)] = Blank THEN RStrip(SubSeq(lines, 1, Len(lines) - 1))
    ELSE lines

\* str.strip(): the blank lines at both ends go; nothing left is the empty string
Strip(text) ==
    LET s == RStrip(LStrip(text))
    IN  IF s = <<>> THEN EmptyStr ELSE s

\* a + b: the last line of a and the first line of b become one line
StrCat(a, b) ==
    LET la == a[Len(a)]
        fb == b[1]
        mid == IF la = Blank THEN fb
               ELSE IF fb = Blank THEN la
               ELSE [t |-> la.t \o fb.t, name |-> la.name \o fb.name]
    IN  SubSeq(a, 1, Len(a) - 1) \o <<mid>> \o SubSeq(b, 2, Len(b))

\* the header literal (lines 135-145); it ends with two newlines
Header ==
    << TextLine("//"),
       TextLine("// Copyright 2022 Signal Messenger, LLC"),
       TextLine("// SPDX-License-Identifier: AGPL-3.0-only"),
       TextLine("//"),
       Blank,
       TextLine("#import <Foundation/Foundation.h>"),
       Blank,
       TextLine("// NOTE: This file is generated by %s."),
       TextLine("// Do not manually edit it, instead run sds_codegen.sh."),
       Blank,
       Blank >>

\* sds_common.clean_up_generated_swift: whitespace normalisation; runs of blank
\* lines become one blank line.
RECURSIVE clean_up_generated_swift(_)
clean_up_generated_swift(text) ==
    IF Len(text) < 2 THEN text
    ELSE IF text[1] = Blank /\ text[2] = Blank
         THEN clean_up_generated_swift(Tail(text))
         ELSE <<text[1]>> \o clean_up_generated_swift(Tail(text))

(***************************************************************************)
(* generate_swift_bridging_header.                                         *)
(***************************************************************************)
\* the list `output` after the two for loops (lines 117-129)
StubListClassesFirst(ns) ==
    [i \in 1..Len(ns.swift_class_names) |-> ClassStub(ns.swift_class_names[i])]
    \o [i \in 1..Len(ns.swift_protocol_names) |-> ProtocolStub(ns.swift_protocol_names[i])]

StubList(ns) ==
    [i \in 1..Len(ns.swift_protocol_names) |-> ProtocolStub(ns.swift_protocol_names[i])]
    \o [i \in 1..Len(ns.swift_class_names) |-> ClassStub(ns.swift_class_names[i])]

\* output joined with newlines, then strip()   (line 131)
StubText(ns) == Strip(Join(StubList(ns)))

\* if len(output) < 1: return   (lines 132-133)
NothingToWrite(ns) == StubText(ns) = EmptyStr

\* the text written to swift_bridging_path (lines 135-150)
HeaderText(ns) == clean_up_generated_swift(Strip(StrCat(Header, StubText(ns))))

NoFile == <<>>

\* the destination tree after generate_swift_bridging_header(namespace, path of dir_name)
WriteHeader(d, dir_name, ns) ==
    IF NothingToWrite(ns) THEN d ELSE [d EXCEPT ![dir_name] = HeaderText(ns)]

(***************************************************************************)
(* The inputs: declaration nodes, sourcekitten documents, files.           *)
(***************************************************************************)
SeqsUpTo(S, n) == UNION {[1..k -> S] : k \in 0..n}

EmptyJson == [k \in {} |-> <<>>]

RuntimeNameParts ==
    {EmptyJson} \cup {("key.runtime_name" :> n) : n \in {<<>>, <<"_", "R">>, <<"R">>}}

DeclaredNameParts ==
    {EmptyJson} \cup {("key.name" :> n) : n \in {<<>>, <<"_", "N">>, <<"N">>}}

\* protocol and class nodes with every combination of key.runtime_name and key.name
DeclNodes ==
    {("key.kind" :> k) @@ r @@ n :
        k \in {KindProtocol, KindClass}, r \in RuntimeNameParts, n \in DeclaredNameParts}

Decl(kind, name) == ("key.kind" :> kind) @@ ("key.name" :> name)
DeclRuntime(kind, runtime_name, name) ==
    ("key.kind" :> kind) @@ ("key.runtime_name" :> runtime_name) @@ ("key.name" :> name)

\* a node without key.kind, and a node of another kind
NodeWithoutKind == ("key.name" :> <<"N">>)
StructNode == ("key.kind" :> KindStruct) @@ ("key.runtime_name" :> <<"R">>) @@ ("key.name" :> <<"N">>)

Nodes == DeclNodes \cup {NodeWithoutKind, StructNode}

Substructure(json_maps) == ("key.substructure" :> json_maps)

\* the nodes the longer documents are made of: a protocol that falls back to
\* key.name, a class exported under its runtime name, a class under its
\* declared name, a private class, a class without a name, and the two
\* nodes that are no protocol or class
SeqNodes ==
    { DeclRuntime(KindProtocol, <<"_", "R">>, <<"N">>),
      DeclRuntime(KindClass, <<"R">>, <<"_", "N">>),
      Decl(KindClass, <<"N">>),
      DeclRuntime(KindClass, <<"_", "R">>, <<"_", "N">>),
      Decl(KindClass, <<>>),
      NodeWithoutKind,
      StructNode }

\* the documents of the single file of a ParseTree: no key.substructure,
\* every node alone, every sequence of up to MaxNodes of the SeqNodes
Documents ==
    {EmptyJson}
    \cup {Substructure(<<n>>) : n \in Nodes}
    \cup {Substructure(ns) : ns \in SeqsUpTo(SeqNodes, MaxNodes)}

SwiftFile(stem, exit_code, json_data) ==
    [name |-> [stem |-> stem, ext |-> "swift"], exit_code |-> exit_code, ast |-> json_data]

\* a file that is no Swift file; were the tool asked, it would report a class
HeaderFile ==
    [name |-> [stem |-> "Foo", ext |-> "h"], exit_code |-> 0,
     ast |-> Substructure(<<Decl(KindClass, <<"H">>)>>)]

\* the file process_file excludes by name
ExcludedFile ==
    SwiftFile("EmojiWithSkinTones+String", 0, Substructure(<<Decl(KindClass, <<"E">>)>>))

\* a Swift file on which sourcekitten exits with a non-zero code
FailingFile == SwiftFile("Broken", 1, Substructure(<<Decl(KindClass, <<"F">>)>>))

ProtocolAndClassFile ==
    SwiftFile("TypingIndicators", 0,
        Substructure(<<Decl(KindProtocol, <<"N">>), DeclRuntime(KindClass, <<"R">>, <<"N">>)>>))

RepFiles == {HeaderFile, ExcludedFile, FailingFile, ProtocolAndClassFile}

OtherFile == SwiftFile("Other", 0, Substructure(<<Decl(KindClass, <<"O">>)>>))

\* the file lists of the directory under study, and of every other directory
RichFileLists == SeqsUpTo(RepFiles, MaxFiles)
OtherFileLists == {<<>>, <<OtherFile>>}

(***************************************************************************)
(* The inputs: the source tree.                                            *)
(*   tree.pods : the entries os.listdir(pods_dir_path) returns, in order;  *)
(*               each with its name, os.path.isdir and the files os.walk   *)
(*               finds below it                                            *)
(*   tree.first: the files os.walk finds below SignalServiceKit,           *)
(*               SignalMessaging and Signal                                *)
(***************************************************************************)
DirName(stem) == [stem |-> stem, ext |-> ""]

FirstParty == <<DirName("SignalServiceKit"), DirName("SignalMessaging"), DirName("Signal")>>

XcodeprojEntry ==
    [name |-> [stem |-> "Pods", ext |-> "xcodeproj"], isdir |-> TRUE, files |-> <<OtherFile>>]
ManifestEntry ==
    [name |-> [stem |-> "Manifest", ext |-> "lock"], isdir |-> FALSE, files |-> <<>>]
PodDir(stem, files) == [name |-> DirName(stem), isdir |-> TRUE, files |-> files]

\* the listings of the Pods directory, with the contents of the Pod directories
\* left open: c is the sequence of their file lists
PodListings(c) ==
    IF Len(c) = 0
    THEN {<<>>, <<XcodeprojEntry, ManifestEntry>>}
    ELSE {<<PodDir("PodA", c[1])>>,
          <<ManifestEntry, PodDir("Signal", c[1]), XcodeprojEntry>>}

\* file lists for k directories, at most one of them the directory under study
Contents(k) ==
    LET plain == [1..k -> OtherFileLists]
    IN  plain \cup {[c EXCEPT ![i] = r] : c \in plain, i \in 1..k, r \in RichFileLists}

RunTrees ==
    UNION { UNION { { [pods |-> p, first |-> SubSeq(c, k + 1, k + 3)] :
                        p \in PodListings(SubSeq(c, 1, k)) } :
                    c \in Contents(k + 3) } :
            k \in 0..1 }

\* trees for parse_swift_ast: one Swift file with any document, in SignalServiceKit
ParseTrees ==
    { [pods |-> <<>>, first |-> <<(<<SwiftFile("Decls", 0, doc)>>), <<>>, <<OtherFile>>>>] :
        doc \in Documents }

Trees == RunTrees \cup ParseTrees

DirNames == {DirName("PodA"), DirName("Signal"), DirName("SignalServiceKit"),
             DirName("SignalMessaging"), XcodeprojEntry.name, ManifestEntry.name}

StaleText == <<TextLine("// stale")>>

(***************************************************************************)
(* Where the process is.                                                   *)
(***************************************************************************)
NumPods == Len(tree.pods)

\* __main__ is past the Pods loop and at the i-th of the three fixed calls
InFirstParty == mainPos > NumPods /\ mainPos <= NumPods + Len(FirstParty)

\* dir_name and the walked files of the process_dir call at mainPos
CurDirName ==
    IF mainPos <= NumPods THEN tree.pods[mainPos].name ELSE FirstParty[mainPos - NumPods]
CurFiles ==
    IF mainPos <= NumPods THEN tree.pods[mainPos].files ELSE tree.first[mainPos - NumPods]

CurFile == CurFiles[fileIdx]
CurNodes == CurFile.ast["key.substructure"]
CurNode == CurNodes[nodeIdx]

\* dirname.endswith(xcodeproj)
EndsWithXcodeproj(name) == name.ext = "xcodeproj"

\* filename.endswith(.swift)
EndsWithSwift(name) == name.ext = "swift"

IsExcludedNever(name) == FALSE

\* filename == EmojiWithSkinTones+String.swift
IsExcluded(name) == name = [stem |-> "EmojiWithSkinTones+String", ext |-> "swift"]

(***************************************************************************)
(* Init: a source tree, and a destination that does not exist or holds a   *)
(* stale header for every directory name.                                  *)
(***************************************************************************)
Init ==
    /\ tree \in Trees
    /\ dest \in {[n \in DirNames |-> NoFile], [n \in DirNames |-> StaleText]}
    /\ pc = "start"
    /\ mainPos = 1
    /\ namespace = NoNamespace
    /\ fileIdx = 1
    /\ nodeIdx = 1
    /\ invocations = 0
    /\ rerun = FALSE
    /\ prevDest = dest
    /\ synthLog = <<>>

(***************************************************************************)
(* sds_common.fail: reports the error and ends the process with a non-zero *)
(* exit status; the statement after a call of fail is never reached.       *)
(***************************************************************************)
fail == pc' = "failed"

(***************************************************************************)
(* __main__ (lines 191-217).                                               *)
(***************************************************************************)
rmtreeKeepsFiles(d) == d

\* shutil.rmtree(swift_bridging_path)
rmtree(d) == [n \in DOMAIN d |-> NoFile]

\* os.path.exists(swift_bridging_path), as far as the headers tell
Exists(d) == \E n \in DOMAIN d : d[n] # NoFile

\* lines 198-202: the destination is deleted if it exists
MainStart ==
    /\ pc = "start"
    /\ dest' = IF Exists(dest) THEN rmtree(dest) ELSE dest
    /\ pc' = "main"
    /\ mainPos' = 1
    /\ UNCHANGED <<tree, namespace, fileIdx, nodeIdx, invocations, rerun, prevDest, synthLog>>

\* lines 207-209: a Pods entry whose name ends with xcodeproj is skipped
SkipXcodeproj ==
    /\ pc = "main"
    /\ mainPos <= NumPods
    /\ EndsWithXcodeproj(tree.pods[mainPos].name)
    /\ mainPos' = mainPos + 1
    /\ UNCHANGED <<tree, dest, pc, namespace, fileIdx, nodeIdx, invocations, rerun,
                   prevDest, synthLog>>

\* lines 210-212: a Pods entry that is no directory is skipped
SkipNotDir ==
    /\ pc = "main"
    /\ mainPos <= NumPods
    /\ ~EndsWithXcodeproj(tree.pods[mainPos].name)
    /\ ~tree.pods[mainPos].isdir
    /\ mainPos' = mainPos + 1
    /\ UNCHANGED <<tree, dest, pc, namespace, fileIdx, nodeIdx, invocations, rerun,
                   prevDest, synthLog>>

\* the call of process_dir at mainPos: line 213 for a Pod directory, lines
\* 215-217 for the first-party directories; process_dir lines 169-179
ProcessDirBegin ==
    /\ pc = "main"
    /\ \/ /\ mainPos <= NumPods
          /\ ~EndsWithXcodeproj(tree.pods[mainPos].name)
          /\ tree.pods[mainPos].isdir
       \/ InFirstParty
    /\ namespace' = Namespace
    /\ fileIdx' = 1
    /\ pc' = "files"
    /\ UNCHANGED <<tree, dest, mainPos, nodeIdx, invocations, rerun, prevDest, synthLog>>

\* the script ends after the last process_dir call: exit status 0
MainEnd ==
    /\ pc = "main"
    /\ mainPos = NumPods + Len(FirstParty) + 1
    /\ pc' = "done"
    /\ UNCHANGED <<tree, dest, mainPos, namespace, fileIdx, nodeIdx, invocations, rerun,
                   prevDest, synthLog>>

(***************************************************************************)
(* process_file (lines 83-112).                                            *)
(***************************************************************************)
InFileLoop == pc = "files" /\ fileIdx <= Len(CurFiles)

ExitCodeIsNegative(exit_code) == exit_code < 0

\* if exit_code != 0   (line 100)
ToolFailed(exit_code) == exit_code # 0

\* lines 85-86
SkipNotSwift ==
    /\ InFileLoop
    /\ ~EndsWithSwift(CurFile.name)
    /\ fileIdx' = fileIdx + 1
    /\ UNCHANGED <<tree, dest, pc, mainPos, namespace, nodeIdx, invocations, rerun,
                   prevDest, synthLog>>

\* lines 87-88
SkipExcluded ==
    /\ InFileLoop
    /\ EndsWithSwift(CurFile.name)
    /\ IsExcluded(CurFile.name)
    /\ fileIdx' = fileIdx + 1
    /\ UNCHANGED <<tree, dest, pc, mainPos, namespace, nodeIdx, invocations, rerun,
                   prevDest, synthLog>>

\* the file is one sourcekitten is asked about
Invoked == InFileLoop /\ EndsWithSwift(CurFile.name) /\ ~IsExcluded(CurFile.name)

\* lines 99-102: sourcekitten exits with a non-zero code
ToolFails ==
    /\ Invoked
    /\ invocations' = invocations + 1
    /\ ToolFailed(CurFile.exit_code)
    /\ fail
    /\ UNCHANGED <<tree, dest, mainPos, namespace, fileIdx, nodeIdx, rerun, prevDest,
                   synthLog>>

\* lines 99-112 and 37-41: the document has no key.substructure, or an empty one
ParseNothing ==
    /\ Invoked
    /\ invocations' = invocations + 1
    /\ ~ToolFailed(CurFile.exit_code)
    /\ LET json_maps == Get(CurFile.ast, "key.substructure")
       IN  IF json_maps = None THEN TRUE ELSE Len(json_maps[1]) = 0
    /\ fileIdx' = fileIdx + 1
    /\ UNCHANGED <<tree, dest, pc, mainPos, namespace, nodeIdx, rerun, prevDest, synthLog>>

\* lines 99-112 and 37-43: the loop over json_maps begins
ParseBegin ==
    /\ Invoked
    /\ invocations' = invocations + 1
    /\ ~ToolFailed(CurFile.exit_code)
    /\ LET json_maps == Get(CurFile.ast, "key.substructure")
       IN  IF json_maps = None THEN FALSE ELSE Len(json_maps[1]) > 0
    /\ pc' = "nodes"
    /\ nodeIdx' = 1
    /\ UNCHANGED <<tree, dest, mainPos, namespace, fileIdx, rerun, prevDest, synthLog>>

(***************************************************************************)
(* parse_swift_ast: one iteration of the loop over json_maps (lines 43-80).*)
(***************************************************************************)
InNodeLoop == pc = "nodes" /\ nodeIdx <= Len(CurNodes)

\* the iteration ends; after the last one process_file returns
NextNode ==
    IF nodeIdx = Len(CurNodes)
    THEN pc' = "files" /\ fileIdx' = fileIdx + 1 /\ nodeIdx' = 1
    ELSE pc' = pc /\ fileIdx' = fileIdx /\ nodeIdx' = nodeIdx + 1

AppendIfNew(names, name) ==
    IF \E i \in 1..Len(names) : names[i] = name THEN names ELSE Append(names, name)

\* names.append(name)   (lines 63 and 80)
AppendName(names, name) == Append(names, name)

\* lines 55-63 for swift_protocol_names, lines 72-80 for swift_class_names
Declaration(names) ==
    LET name == ResolveName(CurNode)
    IN  IF MissingName(name)
        THEN fail /\ UNCHANGED <<namespace, fileIdx, nodeIdx>>
        ELSE IF StartsWithUnderscore(name[1])
        THEN NextNode /\ UNCHANGED namespace
        ELSE /\ namespace' = [namespace EXCEPT ![names] = AppendName(@, name[1])]
             /\ NextNode

\* lines 44-46: a node without key.kind
NodeNoKind ==
    /\ InNodeLoop
    /\ Get(CurNode, "key.kind") = None
    /\ NextNode
    /\ UNCHANGED <<tree, dest, mainPos, namespace, invocations, rerun, prevDest, synthLog>>

\* lines 47-63
NodeProtocol ==
    /\ InNodeLoop
    /\ Get(CurNode, "key.kind") = Some(KindProtocol)
    /\ Declaration("swift_protocol_names")
    /\ UNCHANGED <<tree, dest, mainPos, invocations, rerun, prevDest, synthLog>>

\* lines 64-80
NodeClass ==
    /\ InNodeLoop
    /\ Get(CurNode, "key.kind") = Some(KindClass)
    /\ Declaration("swift_class_names")
    /\ UNCHANGED <<tree, dest, mainPos, invocations, rerun, prevDest, synthLog>>

\* a node of any other kind: no branch of the if/elif chain applies
NodeOtherKind ==
    /\ InNodeLoop
    /\ Get(CurNode, "key.kind") \notin {None, Some(KindProtocol), Some(KindClass)}
    /\ NextNode
    /\ UNCHANGED <<tree, dest, mainPos, namespace, invocations, rerun, prevDest, synthLog>>

(***************************************************************************)
(* process_dir, lines 185-186: after the last file the header is generated *)
(* and process_dir returns.                                                *)
(***************************************************************************)
GenerateHeader ==
    /\ pc = "files"
    /\ fileIdx > Len(CurFiles)
    /\ dest' = WriteHeader(dest, CurDirName, namespace)
    /\ synthLog' = Append(synthLog, [pos |-> mainPos, namespace |-> namespace])
    /\ mainPos' = mainPos + 1
    /\ pc' = "main"
    /\ UNCHANGED <<tree, namespace, fileIdx, nodeIdx, invocations, rerun, prevDest>>

(***************************************************************************)
(* The tool is run a second time on the same source tree.                  *)
(***************************************************************************)
Rerun ==
    /\ pc \in {"done", "failed"}
    /\ ~rerun
    /\ rerun' = TRUE
    /\ prevDest' = dest
    /\ pc' = "start"
    /\ mainPos' = 1
    /\ namespace' = NoNamespace
    /\ fileIdx' = 1
    /\ nodeIdx' = 1
    /\ invocations' = 0
    /\ synthLog' = <<>>
    /\ UNCHANGED <<tree, dest>>

Next ==
    \/ MainStart
    \/ SkipXcodeproj
    \/ SkipNotDir
    \/ ProcessDirBegin
    \/ MainEnd
    \/ SkipNotSwift
    \/ SkipExcluded
    \/ ToolFails
    \/ ParseNothing
    \/ ParseBegin
    \/ NodeNoKind
    \/ NodeProtocol
    \/ NodeClass
    \/ NodeOtherKind
    \/ GenerateHeader
    \/ Rerun

Spec == Init /\ [][Next]_vars

(***************************************************************************)
(* The properties.  They are stated over the input tree and the observable *)
(* state, with their own reading of the naming rule.                       *)
(***************************************************************************)
\* a name that is present, non-empty and does not start with an underscore
Usable(opt) ==
    IF opt = None THEN FALSE
    ELSE IF Len(opt[1]) = 0 THEN FALSE
    ELSE opt[1][1] # "_"

RuntimeNameOf(node) == Get(node, "key.runtime_name")
DeclaredNameOf(node) == Get(node, "key.name")

IsDecl(node) == Get(node, "key.kind") \in {Some(KindProtocol), Some(KindClass)}

\* the sequence a node of this kind goes to, and the other sequence
SequenceOf(node) ==
    IF Get(node, "key.kind") = Some(KindProtocol)
    THEN "swift_protocol_names" ELSE "swift_class_names"
OtherSequenceOf(node) ==
    IF Get(node, "key.kind") = Some(KindProtocol)
    THEN "swift_class_names" ELSE "swift_protocol_names"

\* the process is about to run the loop body of parse_swift_ast on a
\* protocol or class node
AtDecl == IF pc = "nodes" THEN IsDecl(CurNode) ELSE FALSE

\* this step appends name to the sequence of the current node and to nothing else
Appends(name) ==
    /\ namespace'[SequenceOf(CurNode)] = Append(namespace[SequenceOf(CurNode)], name)
    /\ namespace'[OtherSequenceOf(CurNode)] = namespace[OtherSequenceOf(CurNode)]

\* C1: for a protocol or class node the name appended to the matching
\* sequence is key.runtime_name when that is present, non-empty and not
\* underscore-prefixed, and otherwise key.name when that is present,
\* non-empty and not underscore-prefixed.
C1_ResolvedName ==
    [][ AtDecl =>
          /\ Usable(RuntimeNameOf(CurNode)) => Appends(RuntimeNameOf(CurNode)[1])
          /\ (~Usable(RuntimeNameOf(CurNode)) /\ Usable(DeclaredNameOf(CurNode)))
                => Appends(DeclaredNameOf(CurNode)[1]) ]_vars

\* a protocol fell back to key.name and a class took key.runtime_name
C1_Witness ==
    /\ pc = "files"
    /\ fileIdx = 2
    /\ CurFiles[1].ast = Substructure(<<DeclRuntime(KindProtocol, <<"_", "R">>, <<"N">>),
                                        DeclRuntime(KindClass, <<"R">>, <<"_", "N">>)>>)
    /\ namespace = [swift_protocol_names |-> << <<"N">> >>,
                    swift_class_names |-> << <<"R">> >>]

DeclaredNameIsPrivate(node) ==
    IF DeclaredNameOf(node) = None THEN FALSE
    ELSE IF Len(DeclaredNameOf(node)[1]) = 0 THEN FALSE
    ELSE DeclaredNameOf(node)[1][1] = "_"

\* C2 as stated: a protocol or class node whose key.name starts with an
\* underscore adds nothing to the namespace, whatever its key.runtime_name.
C2_AsStated ==
    [][ (AtDecl /\ DeclaredNameIsPrivate(CurNode)) => namespace' = namespace ]_vars

\* C2 amended: a protocol or class node whose key.name starts with an
\* underscore and whose key.runtime_name is absent, empty or underscore-
\* prefixed adds nothing to the namespace and does not end the run; with a
\* usable key.runtime_name the declaration is exported under that name.
C2_PrivateSkipped ==
    [][ (AtDecl /\ DeclaredNameIsPrivate(CurNode)) =>
          IF Usable(RuntimeNameOf(CurNode))
          THEN Appends(RuntimeNameOf(CurNode)[1])
          ELSE namespace' = namespace /\ pc' # "failed" /\ dest' = dest ]_vars

\* a private class with a private runtime name has been passed over
C2_Witness ==
    /\ pc = "files"
    /\ fileIdx = 2
    /\ CurFiles[1].ast = Substructure(<<DeclRuntime(KindClass, <<"_", "R">>, <<"_", "N">>)>>)
    /\ namespace = NoNamespace

\* process_file is about to run on a file it does not look into
AtSkippedFile ==
    IF pc = "files" /\ fileIdx <= Len(CurFiles)
    THEN \/ CurFile.name.ext # "swift"
         \/ CurFile.name = [stem |-> "EmojiWithSkinTones+String", ext |-> "swift"]
    ELSE FALSE

\* C8: on a file whose name does not end with .swift, and on the excluded
\* file, process_file invokes the tool zero times, leaves both name
\* sequences unchanged and raises no error.
C8_SkippedFileIsNoOp ==
    [][ AtSkippedFile =>
          /\ invocations' = invocations
          /\ namespace' = namespace
          /\ dest' = dest
          /\ pc' = "files" /\ fileIdx' = fileIdx + 1 ]_vars

\* a header file and the excluded Swift file have both been passed over
C8_Witness ==
    /\ pc = "files"
    /\ fileIdx = 3
    /\ CurFiles = <<HeaderFile, ExcludedFile>>
    /\ invocations = 0
    /\ namespace = NoNamespace

(***************************************************************************)
(* What a directory yields, read off the input tree.                       *)
(***************************************************************************)
\* the name a protocol or class node is exported under, if any
Exported(node) ==
    IF Usable(RuntimeNameOf(node)) THEN RuntimeNameOf(node)
    ELSE IF Usable(DeclaredNameOf(node)) THEN DeclaredNameOf(node)
    ELSE None

RECURSIVE ExportedNames(_, _)
ExportedNames(nodes, kind) ==
    IF nodes = <<>> THEN <<>>
    ELSE (IF Get(Head(nodes), "key.kind") = Some(kind) THEN Exported(Head(nodes)) ELSE <<>>)
         \o ExportedNames(Tail(nodes), kind)

IsLookedInto(file) ==
    /\ file.name.ext = "swift"
    /\ file.name # [stem |-> "EmojiWithSkinTones+String", ext |-> "swift"]

RECURSIVE YieldedNames(_, _)
YieldedNames(files, kind) ==
    IF files = <<>> THEN <<>>
    ELSE (IF IsLookedInto(Head(files)) /\ "key.substructure" \in DOMAIN Head(files).ast
          THEN ExportedNames(Head(files).ast["key.substructure"], kind)
          ELSE <<>>)
         \o YieldedNames(Tail(files), kind)

Yield(files) ==
    [swift_protocol_names |-> YieldedNames(files, KindProtocol),
     swift_class_names |-> YieldedNames(files, KindClass)]

YieldsNothing(files) ==
    YieldedNames(files, KindProtocol) = <<>> /\ YieldedNames(files, KindClass) = <<>>

\* the positions of __main__ at which process_dir is called, in order
DirNameAt(p) == IF p <= NumPods THEN tree.pods[p].name ELSE FirstParty[p - NumPods]
FilesAt(p) == IF p <= NumPods THEN tree.pods[p].files ELSE tree.first[p - NumPods]
IsProcessed(p) ==
    IF p <= NumPods
    THEN tree.pods[p].isdir /\ tree.pods[p].name.ext # "xcodeproj"
    ELSE TRUE
Processed == SelectSeq([p \in 1..(NumPods + 3) |-> p], IsProcessed)

\* the declaration lines of a header text, and its stub lines
IsStubLine(l) == l.t \in {"@protocol %s", "@interface %s : NSObject"}
IsDeclLine(l) == IsStubLine(l) \/ l.t = "@end"
StubLines(text) == SelectSeq(text, IsStubLine)
DeclLines(text) == SelectSeq(text, IsDeclLine)

Count(seq, x) == Cardinality({i \in 1..Len(seq) : seq[i] = x})

\* this step is the call of generate_swift_bridging_header
AtSynthesis == pc = "files" /\ pc' = "main"

\* C3: for a namespace of N protocol names and M class names the header
\* holds exactly N protocol stubs followed by exactly M class stubs, stub i
\* naming the i-th collected name, each closed by @end; nothing else is
\* declared, no other file changes, and with N = M = 0 nothing is written.
C3_StubsFollowNamespace ==
    [][ AtSynthesis =>
          LET P == namespace.swift_protocol_names
              C == namespace.swift_class_names
              N == Len(P)
              M == Len(C)
              body == DeclLines(dest'[CurDirName])
          IN  IF N + M = 0
              THEN dest' = dest
              ELSE /\ Len(body) = 2 * (N + M)
                   /\ \A i \in 1..N :
                        body[2 * i - 1] = ProtocolLine(P[i]) /\ body[2 * i] = EndLine
                   /\ \A j \in 1..M :
                        /\ body[2 * (N + j) - 1] = InterfaceLine(C[j])
                        /\ body[2 * (N + j)] = EndLine
                   /\ \A m \in DirNames \ {CurDirName} : dest'[m] = dest[m] ]_vars

\* a header of two protocol stubs and two class stubs has been written
C3_Witness ==
    /\ pc = "main"
    /\ synthLog # <<>>
    /\ LET last == synthLog[Len(synthLog)]
       IN  /\ last.namespace = [swift_protocol_names |-> << <<"N">>, <<"N">> >>,
                                swift_class_names |-> << <<"R">>, <<"R">> >>]
           /\ Len(StubLines(dest[DirNameAt(last.pos)])) = 4

\* C4 as stated: in every header each name is declared exactly once.
C4_AsStated ==
    \A n \in DirNames :
        \A i, j \in 1..Len(StubLines(dest[n])) :
            i # j => StubLines(dest[n])[i] # StubLines(dest[n])[j]

AllNames == {<<>>, <<"R">>, <<"N">>, <<"_", "R">>, <<"_", "N">>, <<"O">>, <<"H">>,
             <<"E">>, <<"F">>}

\* C4 amended: nothing is deduplicated; the header of a directory declares
\* a name as a protocol (as a class) exactly as many times as top-level
\* protocol (class) declarations of the files of the directory are
\* exported under that name.
C4_OneStubPerOccurrence ==
    [][ (AtSynthesis /\ ~YieldsNothing(CurFiles)) =>
          \A x \in AllNames :
            /\ Count(dest'[CurDirName], ProtocolLine(x))
                  = Count(YieldedNames(CurFiles, KindProtocol), x)
            /\ Count(dest'[CurDirName], InterfaceLine(x))
                  = Count(YieldedNames(CurFiles, KindClass), x) ]_vars

\* a header declares the same class twice
C4_Witness ==
    \E n \in DirNames : Count(dest[n], InterfaceLine(<<"R">>)) = 2

\* the process is about to ask the tool about a file, and the tool will
\* exit with a non-zero code
AtFailingInvocation ==
    IF pc = "files" /\ fileIdx <= Len(CurFiles)
    THEN IsLookedInto(CurFile) /\ CurFile.exit_code # 0
    ELSE FALSE

\* C5: a non-zero exit code of the tool ends the run at once: the failing
\* file adds no name, and from then on no file is processed, the tool is
\* not invoked and no header is written; the headers written before stay.
C5_ToolFailureAborts ==
    [][ /\ AtFailingInvocation =>
              /\ pc' = "failed"
              /\ invocations' = invocations + 1
              /\ namespace' = namespace
              /\ dest' = dest
        /\ (pc = "failed" /\ pc' # "start") =>
              UNCHANGED <<pc, dest, namespace, invocations, mainPos, fileIdx, nodeIdx,
                          synthLog>> ]_vars

\* the run failed on the tool in a directory that is not the first, the
\* header of an earlier directory is in place and a later directory that
\* yields names has no header
C5_Witness ==
    /\ pc = "failed"
    /\ CurFile = FailingFile
    /\ \E i \in 1..Len(Processed) :
          /\ Processed[i] < mainPos
          /\ dest[DirNameAt(Processed[i])] # NoFile
    /\ \E i \in 1..Len(Processed) :
          /\ Processed[i] > mainPos
          /\ ~YieldsNothing(FilesAt(Processed[i]))
          /\ dest[DirNameAt(Processed[i])] = NoFile

\* a protocol or class node that resolves to a missing or empty name
Unresolvable(node) ==
    /\ IsDecl(node)
    /\ ~Usable(RuntimeNameOf(node))
    /\ \/ DeclaredNameOf(node) = None
       \/ DeclaredNameOf(node) = Some(<<>>)

\* the tool fails on the file, or its document holds an unresolvable declaration
IsFatal(file) ==
    /\ IsLookedInto(file)
    /\ \/ file.exit_code # 0
       \/ /\ "key.substructure" \in DOMAIN file.ast
          /\ \E i \in 1..Len(file.ast["key.substructure"]) :
                Unresolvable(file.ast["key.substructure"][i])

TreeIsFatal ==
    \E i \in 1..Len(Processed) :
        \E k \in 1..Len(FilesAt(Processed[i])) : IsFatal(FilesAt(Processed[i])[k])

C7_AsStated ==
    pc = "done" =>
        \A i \in 1..Len(Processed) :
            YieldsNothing(FilesAt(Processed[i])) => dest[DirNameAt(Processed[i])] = NoFile

\* every processed directory of that name yields no name
NameYieldsNothing(n) ==
    \A i \in 1..Len(Processed) :
        DirNameAt(Processed[i]) = n => YieldsNothing(FilesAt(Processed[i]))

\* C7 amended: after a completed run no header exists at
\* <destination>/<n>/<n>-Swift.h when every processed directory named n
\* yields no name, whatever the destination held before the run; a Pods
\* directory and a first-party directory of the same name share the path.
C7_NoHeaderForEmptyDirectory ==
    pc = "done" =>
        \A i \in 1..Len(Processed) :
            NameYieldsNothing(DirNameAt(Processed[i])) => dest[DirNameAt(Processed[i])] = NoFile

\* a first run is complete; a directory that yields nothing had a header
\* when the run started and has none now
C7_Witness ==
    /\ pc = "done"
    /\ ~rerun
    /\ \E i \in 1..Len(Processed) :
          /\ NameYieldsNothing(DirNameAt(Processed[i]))
          /\ prevDest[DirNameAt(Processed[i])] = StaleText
          /\ dest[DirNameAt(Processed[i])] = NoFile

\* the run has written a header at the path of n
WrittenThisRun(n) ==
    \E i \in 1..Len(synthLog) :
        /\ DirNameAt(synthLog[i].pos) = n
        /\ synthLog[i].namespace # NoNamespace

\* C9: the second of two successive runs on the same input leaves the
\* destination tree as the first left it, and what a run leaves does not
\* depend on what the destination held before: every header in it was
\* written by that run.
C9_Idempotent ==
    pc \in {"done", "failed"} =>
        /\ rerun => dest = prevDest
        /\ \A n \in DirNames : dest[n] # NoFile => WrittenThisRun(n)

\* a second run is complete and the destination holds two headers
C9_Witness ==
    /\ pc = "done"
    /\ rerun
    /\ Cardinality({n \in DirNames : dest[n] # NoFile}) >= 2

\* C10: header synthesis happens once per processed directory, in order
\* and after the files of the directory; the namespace it is given holds
\* the names of the files of that directory alone, in file order and then
\* declaration order, nothing dropped or sorted; the namespace of a
\* directory starts empty.
C10_NamespacePerDirectory ==
    /\ Len(synthLog) <= Len(Processed)
    /\ \A i \in 1..Len(synthLog) :
          /\ synthLog[i].pos = Processed[i]
          /\ synthLog[i].namespace = Yield(FilesAt(Processed[i]))
    /\ pc \in {"files", "nodes"} =>
          /\ Len(synthLog) < Len(Processed)
          /\ Processed[Len(synthLog) + 1] = mainPos
    /\ pc = "files" => namespace = Yield(SubSeq(CurFiles, 1, fileIdx - 1))
    /\ pc = "done" => Len(synthLog) = Len(Processed)

\* the run is complete; one directory collected the same class from two
\* files, another directory collected a class of its own
C10_Witness ==
    /\ pc = "done"
    /\ \E i, j \in 1..Len(synthLog) :
          /\ synthLog[i].namespace.swift_class_names = << <<"R">>, <<"R">> >>
          /\ synthLog[i].namespace.swift_protocol_names = << <<"N">>, <<"N">> >>
          /\ synthLog[j].namespace.swift_class_names = << <<"O">> >>
          /\ i < j

====
